---- MODULE Spec2Model ----
(***************************************************************************)
(* A model of game/gmdraw.c: the rectangle algebra mk_disjoint (with its   *)
(* helpers quicksort, find and set_add) and the per-frame pipeline         *)
(* fastdraw (dirty collection, occlusion, back-to-front redraw).           *)
(*                                                                         *)
(* C arrays (edges, grid, beg, end) are functions over 0..n-1, so that the *)
(* indices are the code's.  Python lists are sequences.                    *)
(***************************************************************************)
EXTENDS Integers, Sequences, FiniteSets, TLC

VARIABLES
    \* a call of mk_disjoint: its arguments, its sorted edge arrays, its result
    add, rm, edges, result,
    \* a call of fastdraw
    graphics,        \* the drawables of each layer, topmost layer first
    old,             \* graphics and dirty as they were when the call began
    dirty,           \* the dirty accumulator (the fourth argument)
    pc,              \* where the call is
    li,              \* the layer index i of the occlusion loop
    l_opaque,        \* l_dirty_opaque of each layer done
    dirty_by_layer,  \* dirty_by_layer[0..li-1]
    rtn,             \* the value returned
    log              \* the calls made on the drawables, in order

mdvars == <<add, rm, edges, result>>
fdvars == <<graphics, old, dirty, pc, li, l_opaque, dirty_by_layer, rtn, log>>
vars == <<add, rm, edges, result, graphics, old, dirty, pc, li, l_opaque,
          dirty_by_layer, rtn, log>>

(***************************************************************************)
(* Bounds of the model.                                                    *)
(***************************************************************************)
\* the corners of the rectangles handed to mk_disjoint lie in 0..MaxCoord
MaxCoord == 2
\* rectangles in add and rm together
MaxRects == 3
\* layers of a frame
MaxLayers == 2
\* drawables of a frame, over all its layers
MaxGraphics == 2

(***************************************************************************)
(* Rectangles (pygame.Rect: x, y, w, h).                                   *)
(***************************************************************************)
Rect(x, y, w, h) == [x |-> x, y |-> y, w |-> w, h |-> h]

Range(s) == {s[n] : n \in DOMAIN s}

\* the test r.w > 0 && r.h > 0
Positive(r) == r.w > 0 /\ r.h > 0

\* the integer points of a rectangle: x <= px < x+w and y <= py < y+h
PointsOf(r) == (r.x .. (r.x + r.w - 1)) \X (r.y .. (r.y + r.h - 1))

\* the integer points inside some rectangle of a list
CoverSet(rects) == UNION {PointsOf(rects[n]) : n \in DOMAIN rects}

(***************************************************************************)
(* quicksort: the iterative quicksort over arr[0..elements-1], with its    *)
(* explicit stack beg[], end[] and stack pointer i.                        *)
(***************************************************************************)
RECURSIVE ScanDown(_, _, _, _)
\* while (arr[R] >= piv && L < R) R--;
ScanDown(arr, L, R, piv) ==
    IF arr[R] >= piv /\ L < R THEN ScanDown(arr, L, R - 1, piv) ELSE R

RECURSIVE ScanUp(_, _, _, _)
\* while (arr[L] <= piv && L < R) L++;
ScanUp(arr, L, R, piv) ==
    IF arr[L] <= piv /\ L < R THEN ScanUp(arr, L + 1, R, piv) ELSE L

RECURSIVE Partition(_, _, _, _)
\* the loop while (L < R) { ... } around the pivot piv
Partition(arr, L, R, piv) ==
    IF L < R
    THEN LET R1 == ScanDown(arr, L, R, piv)
             a1 == IF L < R1 THEN [arr EXCEPT ![L] = arr[R1]] ELSE arr
             L1 == IF L < R1 THEN L + 1 ELSE L
             L2 == ScanUp(a1, L1, R1, piv)
             a2 == IF L2 < R1 THEN [a1 EXCEPT ![R1] = a1[L2]] ELSE a1
             R2 == IF L2 < R1 THEN R1 - 1 ELSE R1
         IN  Partition(a2, L2, R2, piv)
    ELSE [arr |-> arr, L |-> L]

RECURSIVE QsLoop(_, _, _, _)
\* the loop while (i >= 0) { ... }
QsLoop(arr, beg, end, i) ==
    IF i >= 0
    THEN LET L == beg[i]
             R == end[i] - 1
         IN  IF L < R
             THEN LET p  == Partition(arr, L, R, arr[L])
                      a  == [p.arr EXCEPT ![p.L] = arr[L]]
                      \* beg[i+1] = L+1; end[i+1] = end[i]; end[i++] = L;
                      b1 == ((i + 1) :> (p.L + 1)) @@ beg
                      e1 == ((i + 1) :> end[i]) @@ [end EXCEPT ![i] = p.L]
                      sw == e1[i + 1] - b1[i + 1] > e1[i] - b1[i]
                      b2 == IF sw THEN [b1 EXCEPT ![i + 1] = b1[i],
                                                  ![i] = b1[i + 1]]
                                  ELSE b1
                      e2 == IF sw THEN [e1 EXCEPT ![i + 1] = e1[i],
                                                  ![i] = e1[i + 1]]
                                  ELSE e1
                  IN  QsLoop(a, b2, e2, i + 1)
             ELSE QsLoop(arr, beg, end, i - 1)
    ELSE arr

quicksort(arr, elements) == QsLoop(arr, (0 :> 0), (0 :> elements), 0)

(***************************************************************************)
(* find and set_add.                                                       *)
(***************************************************************************)
RECURSIVE find(_, _, _, _)
\* the first index >= i of x in arr[0..n-1], or -1
find(arr, n, x, i) ==
    IF i < n
    THEN IF arr[i] = x THEN i ELSE find(arr, n, x, i + 1)
    ELSE -1

\* a set_add that appends without looking for x
set_add_nodedup(arr, n, x) == [arr |-> (n :> x) @@ arr, rtn |-> 1]

\* arr[n] = x unless x is among arr[0..n-1]; rtn is the value returned
set_add(arr, n, x) ==
    IF \E i \in 0..(n - 1) : arr[i] = x
    THEN [arr |-> arr, rtn |-> 0]
    ELSE [arr |-> (n :> x) @@ arr, rtn |-> 1]

\* n_edges[d] += set_add(edges[d], n_edges[d], v)
AddEdge(e, v) ==
    LET s == set_add(e.arr, e.n, v)
    IN  [n |-> e.n + s.rtn, arr |-> s.arr]

NoEdges == [n |-> 0, arr |-> <<>>]

RECURSIVE get_edges(_, _)
\* edges[] and n_edges[] once the loop has taken the first n rectangles of
\* rects (those of add, then those of rm), degenerate ones included
get_edges(rects, n) ==
    IF n = 0
    THEN [x |-> NoEdges, y |-> NoEdges]
    ELSE LET e == get_edges(rects, n - 1)
             r == rects[n]
         IN  [x |-> AddEdge(AddEdge(e.x, r.x), r.x + r.w),
              y |-> AddEdge(AddEdge(e.y, r.y), r.y + r.h)]

\* edges[0], edges[1] and n_edges[0], n_edges[1] after the two quicksorts
SortedEdges(a, r) ==
    LET e == get_edges(a \o r, Len(a) + Len(r))
    IN  [x |-> quicksort(e.x.arr, e.x.n), nx |-> e.x.n,
         y |-> quicksort(e.y.arr, e.y.n), ny |-> e.y.n]

(***************************************************************************)
(* The grid of mk_disjoint.                                                *)
(***************************************************************************)
\* the number of ints allocated for grid
GridSize(nx, ny) == (nx - 1) * (ny - 1)

\* the slot of the cell in row k and column l
GridIndex(ny, k, l) == (ny - 1) * k + l

\* the cells of the grid, as <<row, column>>
GridCells(nx, ny) == (0..(ny - 2)) \X (0..(nx - 2))

\* the slots outside the allocation that the loops can touch
SlackSlots(nx, ny) ==
    {GridIndex(ny, c[1], c[2]) : c \in GridCells(nx, ny)}
        \ (0..(GridSize(nx, ny) - 1))

\* what memory outside the allocation may hold: 0..3 are the two flag bits,
\* 4 is any value with a higher bit set
JunkVals == 0..4

\* v | 2
BitOr2(v) == IF (v \div 2) % 2 = 1 THEN v ELSE v + 2

\* v ^ 1
BitXor1(v) == IF v % 2 = 1 THEN v - 1 ELSE v + 1

\* grid after for (j = 0; j < i; j++) grid[j] = 1; the slots past the
\* allocation, never written by that loop, hold the word junk
InitGrid(nx, ny, junk) ==
    [s \in (0..(GridSize(nx, ny) - 1)) \cup SlackSlots(nx, ny) |->
        IF s < GridSize(nx, ny) THEN 1 ELSE junk]

\* the two nested loops over rows row0..row1-1 and columns col0..col1-1 for
\* one rectangle: |= 2 on each slot visited for add (i = 0), ^= 1 once per
\* visit for rm (i = 1)
MarkRect(grid, e, i, r) ==
    IF Positive(r)
    THEN LET row0 == find(e.y, e.ny, r.y, 0)
             row1 == find(e.y, e.ny, r.y + r.h, row0)
             col0 == find(e.x, e.nx, r.x, 0)
             col1 == find(e.x, e.nx, r.x + r.w, col0)
             span == (row0..(row1 - 1)) \X (col0..(col1 - 1))
             hits(s) == Cardinality({c \in span :
                                        GridIndex(e.ny, c[1], c[2]) = s})
         IN  [s \in DOMAIN grid |->
                IF i = 0
                THEN IF hits(s) > 0 THEN BitOr2(grid[s]) ELSE grid[s]
                ELSE IF hits(s) % 2 = 1 THEN BitXor1(grid[s]) ELSE grid[s]]
    ELSE grid

RECURSIVE MarkAll(_, _, _, _, _)
\* the loop over the rectangles of add (i = 0) or of rm (i = 1), once it has
\* taken the first n of them
MarkAll(grid, e, i, rects, n) ==
    IF n = 0
    THEN grid
    ELSE MarkRect(MarkAll(grid, e, i, rects, n - 1), e, i, rects[n])

\* the cells in the order of the output loops: rows outside, columns inside
CellSeq(nx, ny) ==
    IF nx < 2 \/ ny < 2
    THEN <<>>
    ELSE [c \in 1..((nx - 1) * (ny - 1)) |->
            <<(c - 1) \div (nx - 1), (c - 1) % (nx - 1)>>]

\* the rectangle of the cell in row c[1] and column c[2]
CellRect(e, c) ==
    Rect(e.x[c[2]], e.y[c[1]],
         e.x[c[2] + 1] - e.x[c[2]], e.y[c[1] + 1] - e.y[c[1]])

\* one rectangle per cell whose slot holds 3
Subrects(grid, e) ==
    LET cells == CellSeq(e.nx, e.ny)
        keep == SelectSeq(cells,
                    LAMBDA c : grid[GridIndex(e.ny, c[1], c[2])] = 3)
    IN  [n \in 1..Len(keep) |-> CellRect(e, keep[n])]

\* the junk a call of mk_disjoint may find past its grid (one word when the
\* call touches no slot past it)
JunkChoices(e) == IF SlackSlots(e.nx, e.ny) = {} THEN {1} ELSE JunkVals

\* mk_disjoint from the sorted edges on: the grid, the marking, the output
MarkedSubrects(e, a, r, junk) ==
    LET g0 == InitGrid(e.nx, e.ny, junk)
        g1 == MarkAll(g0, e, 0, a, Len(a))
        g2 == MarkAll(g1, e, 1, r, Len(r))
    IN  Subrects(g2, e)

mk_disjoint(a, r, junk) == MarkedSubrects(SortedEdges(a, r), a, r, junk)

(***************************************************************************)
(* mk_disjoint on growing lists add and rm.                                *)
(***************************************************************************)
\* the intervals <<lo, hi>> with lo < hi in 0..MaxCoord
Spans == {q \in (0..MaxCoord) \X (0..MaxCoord) : q[1] < q[2]}

\* rectangles with corners in 0..MaxCoord: the columns one unit wide at
\* x = 0, the rows one unit high that start at the origin, and one rectangle
\* of height 0
InputRects ==
    {Rect(0, q[1], 1, q[2] - q[1]) : q \in Spans}
        \cup {Rect(0, 0, w, 1) : w \in 1..MaxCoord}
        \cup {Rect(0, 1, 1, 0)}

FdIdle ==
    /\ graphics = <<>>
    /\ old = [graphics |-> <<>>, dirty |-> <<>>]
    /\ dirty = <<>>
    /\ pc = "idle"
    /\ li = 0
    /\ l_opaque = <<>>
    /\ dirty_by_layer = <<>>
    /\ rtn = [kind |-> "none"]
    /\ log = <<>>

MdIdle ==
    /\ add = <<>>
    /\ rm = <<>>
    /\ edges = SortedEdges(<<>>, <<>>)
    /\ result = <<>>

InitMD == MdIdle /\ FdIdle

\* result = mk_disjoint(a, r)
Call(a, r) ==
    /\ add' = a
    /\ rm' = r
    /\ edges' = SortedEdges(a, r)
    /\ \E junk \in JunkChoices(edges') :
          result' = MarkedSubrects(edges', add', rm', junk)

AddRect(r) ==
    /\ Len(add) + Len(rm) < MaxRects
    /\ Call(Append(add, r), rm)
    /\ UNCHANGED fdvars

RmRect(r) ==
    /\ Len(add) + Len(rm) < MaxRects
    /\ Call(add, Append(rm, r))
    /\ UNCHANGED fdvars

NextMD ==
    \/ \E r \in InputRects : AddRect(r)
    \/ \E r \in InputRects : RmRect(r)

SpecMD == InitMD /\ [][NextMD]_vars

(***************************************************************************)
(* Claims about mk_disjoint.                                               *)
(***************************************************************************)
\* arr[0..n-1] is strictly ascending
StrictlyAscending(arr, n) == \A i \in 0..(n - 2) : arr[i] < arr[i + 1]

\* the values of arr[0..n-1]
Values(arr, n) == {arr[i] : i \in 0..(n - 1)}

\* C1: a point is inside some returned rectangle iff it is inside some
\* positive-area rectangle of add and inside no positive-area rectangle of rm
C1_CoverageLaw == CoverSet(result) = CoverSet(add) \ CoverSet(rm)

C6_OverlapCollapse ==
    /\ \A p \in CoverSet(result) :
          Cardinality({n \in DOMAIN rm : p \in PointsOf(rm[n])}) < 2
    /\ \A n \in DOMAIN rm :
          LET r2 == Append(rm, rm[n])
          IN  \A junk \in JunkChoices(SortedEdges(add, r2)) :
                 CoverSet(mk_disjoint(add, r2, junk)) = CoverSet(result)

\* C10: the slot index maps the cells of the grid one-to-one into the
\* allocation 0..GridSize-1
C10_GridAddressing ==
    LET cells == GridCells(edges.nx, edges.ny)
    IN  /\ \A c \in cells :
              GridIndex(edges.ny, c[1], c[2])
                  \in 0..(GridSize(edges.nx, edges.ny) - 1)
        /\ \A c, d \in cells :
              c # d => GridIndex(edges.ny, c[1], c[2])
                          # GridIndex(edges.ny, d[1], d[2])

(***************************************************************************)
(* fastdraw: the drawables and the calls made on them.                     *)
(***************************************************************************)
\* one axis of pygame's Rect.clip for the spans [ax, ax+aw) and [bx, bx+bw)
ClipAxis(ax, aw, bx, bw) ==
    LET lo_a == ax >= bx /\ ax < bx + bw
        lo_b == bx >= ax /\ bx < ax + aw
        hi_a == ax + aw > bx /\ ax + aw <= bx + bw
        hi_b == bx + bw > ax /\ bx + bw <= ax + aw
        lo   == IF lo_a THEN ax ELSE bx
        hi   == IF hi_a THEN ax + aw ELSE bx + bw
    IN  [ok |-> (lo_a \/ lo_b) /\ (hi_a \/ hi_b), lo |-> lo, len |-> hi - lo]

\* a.clip(b): the intersection, or a rectangle of size 0 at a's corner when
\* the two do not intersect
clip(a, b) ==
    LET h == ClipAxis(a.x, a.w, b.x, b.w)
        v == ClipAxis(a.y, a.h, b.y, b.h)
    IN  IF h.ok /\ v.ok
        THEN Rect(h.lo, v.lo, h.len, v.len)
        ELSE Rect(a.x, a.y, 0, 0)

\* g.opaque_in(r): the drawable's own answer
opaque_in(g, r) == g.opaque

\* a call made on the drawable at index g of the layer at index layer
\* (both counted from 0): its argument rectangles and its value
Ev(op, layer, g, arg, val) ==
    [op |-> op, layer |-> layer, g |-> g, arg |-> arg, val |-> val]

RECURSIVE ConcatTo(_, _)
\* the concatenation of the first n sequences of ss
ConcatTo(ss, n) == IF n = 0 THEN <<>> ELSE ConcatTo(ss, n - 1) \o ss[n]

\* the concatenation of a sequence of sequences
Concat(ss) == ConcatTo(ss, Len(ss))

(***************************************************************************)
(* The collection pass.                                                    *)
(***************************************************************************)
\* the loop over g_dirty: the clip of each rectangle against g_rect
ClipsOf(g_dirty, g_rect) ==
    [l \in 1..Len(g_dirty) |-> clip(g_dirty[l], g_rect)]

\* a collection that keeps only the clips of positive area
collect_graphic_positive(g) ==
    [g   |-> [g EXCEPT !.was_visible = g.visible],
     out |-> SelectSeq((IF g.was_visible
                        THEN ClipsOf(g.dirty, g.last_rect) ELSE <<>>)
                       \o (IF g.visible
                           THEN ClipsOf(g.dirty, g.rect) ELSE <<>>),
                       Positive)]

\* a collection that sets was_visible before it reads it
collect_graphic_early(g) ==
    [g   |-> [g EXCEPT !.was_visible = g.visible],
     out |-> (IF g.visible THEN ClipsOf(g.dirty, g.last_rect) ELSE <<>>)
             \o (IF g.visible THEN ClipsOf(g.dirty, g.rect) ELSE <<>>)]

\* the body of the loop over gs for one drawable: what it appends to dirty
\* (k = 0: was_visible and last_rect, k = 1: visible and _rect), and the
\* drawable after was_visible is set
collect_graphic(g) ==
    [g   |-> [g EXCEPT !.was_visible = g.visible],
     out |-> (IF g.was_visible
              THEN ClipsOf(g.dirty, g.last_rect) ELSE <<>>)
             \o (IF g.visible THEN ClipsOf(g.dirty, g.rect) ELSE <<>>)]

\* the two loops over the layers and their drawables
collect_all(gr) ==
    LET c == [i \in DOMAIN gr |->
                [j \in DOMAIN gr[i] |-> collect_graphic(gr[i][j])]]
    IN  [graphics |-> [i \in DOMAIN gr |->
                         [j \in DOMAIN gr[i] |-> c[i][j].g]],
         out |-> Concat([i \in DOMAIN gr |->
                     Concat([j \in DOMAIN gr[i] |-> c[i][j].out])]),
         log |-> Concat([i \in DOMAIN gr |->
                     [j \in DOMAIN gr[i] |->
                        Ev("set_was_visible", i - 1, j - 1, <<>>,
                           c[i][j].g.was_visible)]])]

(***************************************************************************)
(* The occlusion pass.                                                     *)
(***************************************************************************)
RECURSIVE opaque_chain(_, _, _, _)
\* the loop over the drawables gs[k], gs[k+1], ... of layer i for one dirty
\* rectangle, r being the rectangle clipped so far
opaque_chain(gs, i, k, r) ==
    IF k > Len(gs)
    THEN [good |-> TRUE, r |-> r, calls |-> <<>>]
    ELSE LET r2  == clip(r, gs[k].rect)
             tmp == opaque_in(gs[k], r2)
             ev  == Ev("opaque_in", i, k - 1, <<r2>>, tmp)
         IN  IF Positive(r2) /\ tmp
             THEN LET rest == opaque_chain(gs, i, k + 1, r2)
                  IN  [rest EXCEPT !.calls = <<ev>> \o @]
             ELSE [good |-> FALSE, r |-> r2, calls |-> <<ev>>]

\* the loop over dirty for layer i: l_dirty_opaque and the calls made
layer_opaque(gs, i, d) ==
    LET ch == [j \in 1..Len(d) |-> opaque_chain(gs, i, 1, d[j])]
        ok == SelectSeq(ch, LAMBDA c : c.good)
    IN  [l_dirty_opaque |-> [n \in 1..Len(ok) |-> ok[n].r],
         calls |-> Concat([j \in 1..Len(d) |-> ch[j].calls])]

\* dirty_opaque: what the layers done have contributed
DirtyOpaque == Concat(l_opaque)

(***************************************************************************)
(* The redraw pass.                                                        *)
(***************************************************************************)
\* a redraw from the topmost layer down
DrawOrderTopFirst(n) == [k \in 1..n |-> k - 1]

\* the layer indices in the order of for (i = n_layers - 1; i >= 0; i--)
DrawOrder(n) == [k \in 1..n |-> n - k]

\* the body of the loop over gs for drawable j of layer i: the draw call, if
\* some rectangle of rs meets the drawable's rect
draw_graphic(g, i, j, rs) ==
    LET cl == [k \in 1..Len(rs) |-> clip(g.rect, rs[k])]
        draw_in == SelectSeq(cl, Positive)
    IN  IF Len(draw_in) > 0
        THEN <<Ev("draw", i, j, draw_in, TRUE)>>
        ELSE <<>>

\* the draw calls of the whole pass, in order
draw_all(gr, by_layer) ==
    LET order == DrawOrder(Len(gr))
    IN  Concat([k \in 1..Len(gr) |->
            Concat([j \in 1..Len(gr[order[k] + 1]) |->
                draw_graphic(gr[order[k] + 1][j], order[k], j - 1,
                             by_layer[order[k] + 1])])])

(***************************************************************************)
(* The frames fastdraw is called on.                                       *)
(***************************************************************************)
FdA == Rect(0, 0, 1, 1)
FdB == Rect(1, 0, 1, 1)

\* an opaque drawable at rest with nothing dirty, an opaque drawable at rest
\* that is dirty all over, and a transparent one that moved from FdA to FdB
\* and is dirty all over
Kinds ==
    {[opaque |-> TRUE, rect |-> FdA, last_rect |-> FdA, dirty |-> <<>>],
     [opaque |-> TRUE, rect |-> FdA, last_rect |-> FdA, dirty |-> <<FdA>>],
     [opaque |-> FALSE, rect |-> FdB, last_rect |-> FdA,
      dirty |-> <<FdB>>]}

Drawables ==
    {[visible |-> v, was_visible |-> w, opaque |-> k.opaque, rect |-> k.rect,
      last_rect |-> k.last_rect, dirty |-> k.dirty] :
        v \in BOOLEAN, w \in BOOLEAN, k \in Kinds}

RECURSIVE SumTo(_, _)
\* the sum of the first n numbers of s
SumTo(s, n) == IF n = 0 THEN 0 ELSE SumTo(s, n - 1) + s[n]

SumSeq(s) == SumTo(s, Len(s))

\* the numbers of drawables of L layers
Shapes(L) ==
    {s \in [1..L -> 0..MaxGraphics] : SumSeq(s) <= MaxGraphics}

\* the layers of the shape s filled from the drawables of flat, in order
Scene(s, flat) ==
    [i \in 1..Len(s) |->
        SubSeq(flat, SumSeq(SubSeq(s, 1, i - 1)) + 1,
                     SumSeq(SubSeq(s, 1, i)))]

Init ==
    /\ MdIdle
    /\ \E L \in 0..MaxLayers :
          \E s \in Shapes(L) :
             \E flat \in [1..SumSeq(s) -> Drawables] :
                graphics = Scene(s, flat)
    /\ dirty \in {<<>>, <<FdA>>}
    /\ old = [graphics |-> graphics, dirty |-> dirty]
    /\ pc = "start"
    /\ li = 0
    /\ l_opaque = <<>>
    /\ dirty_by_layer = <<>>
    /\ rtn = [kind |-> "none"]
    /\ log = <<>>

\* the test PyList_GET_SIZE(dirty) == 0 left out
NothingToDoNever(d) == FALSE

\* PyList_GET_SIZE(dirty) == 0
NothingToDo(d) == Len(d) = 0

\* get dirty rects from graphics
Collect ==
    /\ pc = "start"
    /\ LET c == collect_all(graphics)
       IN  /\ graphics' = c.graphics
           /\ dirty' = dirty \o c.out
           /\ log' = log \o c.log
    /\ pc' = "collected"
    /\ UNCHANGED <<old, li, l_opaque, dirty_by_layer, rtn, mdvars>>

\* only have something to do if dirty is non-empty: goto error, return False
FastPath ==
    /\ pc = "collected"
    /\ NothingToDo(dirty)
    /\ rtn' = [kind |-> "False"]
    /\ pc' = "done"
    /\ UNCHANGED <<graphics, old, dirty, li, l_opaque, dirty_by_layer, log,
                   mdvars>>

StartOcclusion ==
    /\ pc = "collected"
    /\ ~NothingToDo(dirty)
    /\ pc' = IF Len(graphics) = 0 THEN "draw" ELSE "occlude"
    /\ UNCHANGED <<graphics, old, dirty, li, l_opaque, dirty_by_layer, rtn,
                   log, mdvars>>

\* one turn of the loop over the layers: l_dirty_opaque of layer li, then
\* dirty_by_layer[li] = mk_disjoint(dirty, dirty_opaque), then the concat
OccludeLayer ==
    /\ pc = "occlude"
    /\ li < Len(graphics)
    /\ LET lo == layer_opaque(graphics[li + 1], li, dirty)
       IN  /\ l_opaque' = Append(l_opaque, lo.l_dirty_opaque)
           /\ log' = log \o lo.calls
    /\ Call(dirty, DirtyOpaque)
    /\ dirty_by_layer' = Append(dirty_by_layer, result')
    /\ li' = li + 1
    /\ pc' = IF li + 1 = Len(graphics) THEN "draw" ELSE "occlude"
    /\ UNCHANGED <<graphics, old, dirty, rtn>>

\* redraw in dirty rects, empty every drawable's dirty, add up the dirty
\* rects to return
Redraw ==
    /\ pc = "draw"
    /\ log' = log \o draw_all(graphics, dirty_by_layer)
    /\ graphics' = [i \in DOMAIN graphics |->
                      [j \in DOMAIN graphics[i] |->
                         [graphics[i][j] EXCEPT !.dirty = <<>>]]]
    /\ rtn' = [kind |-> "list", rects |-> Concat(dirty_by_layer)]
    /\ pc' = "done"
    /\ UNCHANGED <<old, dirty, li, l_opaque, dirty_by_layer, mdvars>>

Next ==
    \/ Collect
    \/ FastPath
    \/ StartOcclusion
    \/ OccludeLayer
    \/ Redraw

Spec == Init /\ [][Next]_vars

(***************************************************************************)
(* Claims about fastdraw.                                                  *)
(***************************************************************************)
\* the log entries of the calls op
CallsOf(op) == {n \in DOMAIN log : log[n].op = op}

\* C3: no rectangle of dirty_by_layer[i] holds a point of a rectangle that a
\* layer above i contributed to the opaque list
C3_OcclusionCulling ==
    \A i \in DOMAIN dirty_by_layer :
        \A j \in 1..(i - 1) :
            CoverSet(l_opaque[j]) \cap CoverSet(dirty_by_layer[i]) = {}

\* C4: every point of a positive-area dirty rectangle is inside a rectangle
\* of dirty_by_layer[i], unless a drawable of a layer above i holds the point
\* in its rect and answered true to opaque_in for a rectangle holding it
C4_NoUnderPainting ==
    \A i \in DOMAIN dirty_by_layer :
        \A p \in CoverSet(dirty) :
            \/ p \in CoverSet(dirty_by_layer[i])
            \/ \E n \in CallsOf("opaque_in") :
                  /\ log[n].layer < i - 1
                  /\ log[n].val
                  /\ p \in CoverSet(log[n].arg)
                  /\ p \in PointsOf(
                        graphics[log[n].layer + 1][log[n].g + 1].rect)

\* what the collection appends for the drawable g: for each rectangle of its
\* dirty list the clip against last_rect if was_visible holds, then for each
\* the clip against rect if visible holds
ExpectedOf(g) ==
    LET n == Len(g.dirty)
        a == IF g.was_visible THEN n ELSE 0
        b == IF g.visible THEN n ELSE 0
    IN  [m \in 1..(a + b) |->
            IF m <= a
            THEN clip(g.dirty[m], g.last_rect)
            ELSE clip(g.dirty[m - a], g.rect)]

\* the same for all the drawables of a frame, layer by layer
Expected(gr) ==
    LET flat == Concat(gr)
    IN  Concat([n \in 1..Len(flat) |-> ExpectedOf(flat[n])])

\* C5 as stated: after the collection the accumulator is what it was,
\* followed by those expected clips that have positive width and height
C5_CollectsPositiveClips ==
    pc # "start" =>
        dirty = old.dirty \o SelectSeq(Expected(old.graphics), Positive)

\* C5 as amended: after the collection the accumulator is what it was,
\* followed by every expected clip, of positive area or not
C5_CollectsEveryClip ==
    pc # "start" => dirty = old.dirty \o Expected(old.graphics)

\* a frame done whose accumulator was not empty and got a clip of positive
\* area and a clip of no area
C5_Witness ==
    /\ pc = "done"
    /\ old.dirty # <<>>
    /\ \E n \in (Len(old.dirty) + 1)..Len(dirty) : Positive(dirty[n])
    /\ \E n \in (Len(old.dirty) + 1)..Len(dirty) : ~Positive(dirty[n])

\* the number of rectangles the drawable g adds to the accumulator
Contribution(g) ==
    Len(g.dirty) * ((IF g.was_visible THEN 1 ELSE 0)
                    + (IF g.visible THEN 1 ELSE 0))

\* C7: after the collection every drawable has was_visible equal to its
\* visible, was_visible was written once for it, with that value, and the
\* accumulator grew by what the old was_visible asks for
C7_WasVisible ==
    pc # "start" =>
        /\ \A i \in DOMAIN graphics :
              \A j \in DOMAIN graphics[i] :
                 LET w == {n \in CallsOf("set_was_visible") :
                              log[n].layer = i - 1 /\ log[n].g = j - 1}
                 IN  /\ graphics[i][j].was_visible = old.graphics[i][j].visible
                     /\ graphics[i][j].visible = old.graphics[i][j].visible
                     /\ Cardinality(w) = 1
                     /\ \A n \in w : log[n].val = old.graphics[i][j].visible
        /\ LET flat == Concat(old.graphics)
           IN  Len(dirty) = Len(old.dirty)
                  + SumSeq([n \in 1..Len(flat) |-> Contribution(flat[n])])

\* a frame done on the fast path in which a drawable's was_visible changed
C7_Witness ==
    /\ pc = "done"
    /\ rtn.kind = "False"
    /\ \E i \in DOMAIN graphics :
          \E j \in DOMAIN graphics[i] :
             /\ old.graphics[i][j].was_visible # old.graphics[i][j].visible
             /\ graphics[i][j].was_visible = old.graphics[i][j].visible

\* C8: with the accumulator empty after the collection no opaque_in and no
\* draw is called, no dirty_by_layer is computed and False is returned; with
\* the accumulator non-empty a list is returned
C8_FastPath ==
    /\ (pc # "start" /\ dirty = <<>>) =>
          /\ pc \in {"collected", "done"}
          /\ CallsOf("opaque_in") = {}
          /\ CallsOf("draw") = {}
          /\ dirty_by_layer = <<>>
    /\ pc = "done" =>
          /\ dirty = <<>> => rtn.kind = "False"
          /\ dirty # <<>> => rtn.kind = "list"

\* a frame with a drawable in it that returned False
C8_Witness ==
    /\ pc = "done"
    /\ rtn.kind = "False"
    /\ \E i \in DOMAIN graphics : graphics[i] # <<>>

\* C9: a draw call on a lower layer comes before every draw call on a layer
\* above it, the draw calls of one layer come in the order of its drawables,
\* and no opaque_in call comes after a draw call
C9_BackToFront ==
    \A a, b \in DOMAIN log :
        (a < b /\ log[a].op = "draw") =>
            /\ log[b].op # "opaque_in"
            /\ log[b].op = "draw" =>
                  \/ log[a].layer > log[b].layer
                  \/ log[a].layer = log[b].layer /\ log[a].g < log[b].g

\* a frame with draw calls on two layers and an opaque_in call
C9_Witness ==
    /\ CallsOf("opaque_in") # {}
    /\ \E a, b \in CallsOf("draw") : log[a].layer # log[b].layer

====
